---- MODULE Spec2Model ----
(***************************************************************************)
(* Model of backend/src/utils/seed.ts: the startup routine seedBackend,    *)
(* its helpers ensureFirstAdmin and seedDefaultAIConfigs, and the          *)
(* collaborators they call (AuthService, DatabaseManager, AIConfigService, *)
(* isCloudEnvironment, logger).                                            *)
(*                                                                         *)
(* Strings are JavaScript strings; the value undefined is the string       *)
(* Undefined.  A template literal is the sequence of its parts, so that    *)
(* "the message contains the email" is a statement about the parts.  The   *)
(* emoji that open some log messages are left out of the literals (the     *)
(* parser reads ASCII only).                                               *)
(***************************************************************************)
EXTENDS Naturals, Sequences, FiniteSets, TLC

VARIABLES
    env,            \* process configuration: process.env and the cloud classification
    pc,             \* position of seedBackend
    adminEmail,     \* seedBackend's local adminEmail
    adminPassword,  \* seedBackend's local adminPassword
    apiKey,         \* seedBackend's local apiKey
    tableCount,     \* seedBackend's local tableCount
    caught,         \* the error that ended seedBackend's try block, or that it rejected with
    log,            \* the entries written to logger, oldest first
    store,          \* the rows of the AI-config store, oldest first
    calls,          \* the calls issued to AIConfigService, oldest first
    seeder,         \* per invocation of seedDefaultAIConfigs: its position and locals
    prev,           \* history: the last invocation of seedDefaultAIConfigs of an earlier run
    runs            \* number of process starts so far

vars == <<env, pc, adminEmail, adminPassword, apiKey, tableCount, caught, log,
          store, calls, seeder, prev, runs>>

backendVars == <<env, pc, adminEmail, adminPassword, apiKey, tableCount, caught, prev, runs>>

----------------------------------------------------------------------------
(* Bounds *)

MaxRuns == 3

MaxTables == 1

MaxChecks == 3

----------------------------------------------------------------------------
(* JavaScript values *)

Undefined == "<undefined>"

Truthy(s) == s # Undefined /\ s # ""

\* a || b
OrElse(a, b) == IF Truthy(a) THEN a ELSE b

\* The outcome of a call to a collaborator: it returns, or it throws a value.
\* A thrown Error has a message, and String(error) is "Error: " + message; a
\* thrown string has no message property and String(error) is the string.
Ok == [threw |-> FALSE, isError |-> FALSE, message |-> Undefined, repr |-> Undefined]

Throwables ==
    { [threw |-> TRUE, isError |-> TRUE, message |-> "connection refused",
       repr |-> "Error: connection refused"],
      [threw |-> TRUE, isError |-> FALSE, message |-> Undefined,
       repr |-> "timeout"] }

Outcomes == {Ok} \cup Throwables

Contains(seq, v) == \E i \in 1..Len(seq) : seq[i] = v

----------------------------------------------------------------------------
(* logger *)

Entry(level, msg, meta) == [level |-> level, msg |-> msg, meta |-> meta]

AdminConfiguredText == "Admin configured: "

AdminWarningText == "Admin credentials not configured - check ADMIN_EMAIL and ADMIN_PASSWORD"

SeededText == "Default AI models configured (cloud environment)"

ApiKeyText == "API key generated: "

SetupCompleteText == "Setup complete: - Save this API key for your apps! - Dashboard: http://localhost:7131 - API: http://localhost:7130/api"

----------------------------------------------------------------------------
(* ensureFirstAdmin *)

ensureFirstAdminPasswordOnly(email, password) ==
    IF Truthy(password)
    THEN << Entry("info", <<AdminConfiguredText, email>>, <<>>) >>
    ELSE << Entry("warn", <<AdminWarningText>>, <<>>) >>

\* The entries ensureFirstAdmin(adminEmail, adminPassword) writes.
ensureFirstAdmin(email, password) ==
    IF Truthy(email) /\ Truthy(password)
    THEN << Entry("info", <<AdminConfiguredText, email>>, <<>>) >>
    ELSE << Entry("warn", <<AdminWarningText>>, <<>>) >>

----------------------------------------------------------------------------
(* AIConfigService and the store behind it *)

\* create('text', ...) called without the system prompt
TextArgsNoPrompt == <<"text", "openrouter", "anthropic/claude-3.5-haiku">>

\* The arguments of the first create call.
TextArgs == <<"text", "openrouter", "anthropic/claude-3.5-haiku", "You are a helpful assistant.">>

\* The arguments of the second create call.
ImageArgs == <<"image", "openrouter", "google/gemini-2.5-flash-image-preview">>

FindAllCall == [op |-> "findAll", args |-> <<>>]

CreateCall(args) == [op |-> "create", args |-> args]

\* The row create(inputModality, provider, modelId, systemPrompt?) persists.
ConfigRow(args) ==
    [modality |-> args[1], provider |-> args[2], model |-> args[3],
     systemPrompt |-> IF Len(args) >= 4 THEN args[4] ELSE Undefined]

\* create: one new row, after the rows already there.
StoreCreate(rows, args) == Append(rows, ConfigRow(args))

\* findAll: every row.
StoreFindAll(rows) == rows

\* A configuration an operator stored by hand before this routine ran.
CustomRow == ConfigRow(<<"text", "openai", "gpt-4o", "Be brief.">>)

InitialStores == { <<>>, <<CustomRow>> }

----------------------------------------------------------------------------
(* Process configuration *)

Env(email, password, host, port, db, cloud) ==
    [ADMIN_EMAIL |-> email, ADMIN_PASSWORD |-> password, POSTGRES_HOST |-> host,
     POSTGRES_PORT |-> port, POSTGRES_DB |-> db, cloud |-> cloud]

\* The configurations a process is started with: every variable unset, every
\* variable set, and the mixed cases of the admin pair (one unset, one empty).
EnvConfigs ==
    { Env(Undefined, Undefined, Undefined, Undefined, Undefined, c) : c \in BOOLEAN }
    \cup { Env("root@corp.io", "s3cret", "db.internal", "6543", "prod", c) : c \in BOOLEAN }
    \cup { Env("root@corp.io", Undefined, Undefined, "6543", Undefined, TRUE),
           Env("", "s3cret", "db.internal", Undefined, Undefined, FALSE) }

\* isCloudEnvironment()
isCloudEnvironment == env.cloud

ApiKeys == {"ik_1f9a"}

\* process.env.ADMIN_EMAIL read with no default
ReadAdminEmailNoDefault(e) == e.ADMIN_EMAIL

\* process.env.ADMIN_EMAIL || 'admin@example.com'
ReadAdminEmail(e) == OrElse(e.ADMIN_EMAIL, "admin@example.com")

\* process.env.ADMIN_PASSWORD || 'change-this-password'
ReadAdminPassword(e) == OrElse(e.ADMIN_PASSWORD, "change-this-password")

----------------------------------------------------------------------------
(* seedDefaultAIConfigs: one action per stretch of code between two awaits *)

Main == "main"

Second == "second"

Invocations == {Main, Second}

SeederIdle ==
    [pc |-> "idle", existingConfigs |-> <<>>, thrown |-> Ok,
     storeAtEntry |-> <<>>, logAtEntry |-> <<>>]

\* The invocation is called: its frame, and what the store and the log held.
SeederEntered ==
    [SeederIdle EXCEPT !.pc = "entry", !.storeAtEntry = store, !.logAtEntry = log]

SeederDone(p) == seeder[p].pc \in {"returned", "threw"}

\* no gate on the deployment mode
NotCloudGateMissing == FALSE

\* if (!isCloudEnvironment()) return;
NotCloudGate == ~isCloudEnvironment

\* the gate left out
HasExistingNever(existingConfigs) == FALSE

\* existingConfigs.length > 2
HasExistingMoreThanTwo(existingConfigs) == Len(existingConfigs) > 2

\* existingConfigs.length > 1
HasExistingMoreThanOne(existingConfigs) == Len(existingConfigs) > 1

\* existingConfigs.length > 0
HasExisting(existingConfigs) == Len(existingConfigs) > 0

\* From the call to the first await: the mode gate, new AIConfigService(),
\* and the call of findAll().
SeedEnter(p) ==
    /\ seeder[p].pc = "entry"
    /\ IF NotCloudGate
       THEN /\ seeder' = [seeder EXCEPT ![p].pc = "returned"]
            /\ UNCHANGED calls
       ELSE \E o \in Outcomes :
              IF o.threw
              THEN /\ seeder' = [seeder EXCEPT ![p].pc = "threw", ![p].thrown = o]
                   /\ UNCHANGED calls
              ELSE /\ seeder' = [seeder EXCEPT ![p].pc = "findAll"]
                   /\ calls' = Append(calls, FindAllCall)
    /\ UNCHANGED <<backendVars, log, store>>

\* findAll() settles: the emptiness gate, and the call of create(text).
SeedFindAll(p) ==
    /\ seeder[p].pc = "findAll"
    /\ \E o \in Outcomes :
         IF o.threw
         THEN /\ seeder' = [seeder EXCEPT ![p].pc = "threw", ![p].thrown = o]
              /\ UNCHANGED calls
         ELSE LET existingConfigs == StoreFindAll(store)
              IN  IF HasExisting(existingConfigs)
                  THEN /\ seeder' = [seeder EXCEPT ![p].pc = "returned",
                                                   ![p].existingConfigs = existingConfigs]
                       /\ UNCHANGED calls
                  ELSE /\ seeder' = [seeder EXCEPT ![p].pc = "createText",
                                                   ![p].existingConfigs = existingConfigs]
                       /\ calls' = Append(calls, CreateCall(TextArgs))
    /\ UNCHANGED <<backendVars, log, store>>

\* create(text) that looks at the store again and gives up when it has rows
SeedCreateTextRechecks(p) ==
    /\ seeder[p].pc = "createText"
    /\ \E o \in Outcomes :
         IF o.threw
         THEN /\ seeder' = [seeder EXCEPT ![p].pc = "threw", ![p].thrown = o]
              /\ UNCHANGED <<store, calls>>
         ELSE IF Len(store) > 0
              THEN /\ seeder' = [seeder EXCEPT ![p].pc = "returned"]
                   /\ UNCHANGED <<store, calls>>
              ELSE /\ store' = StoreCreate(store, TextArgs)
                   /\ seeder' = [seeder EXCEPT ![p].pc = "createImage"]
                   /\ calls' = Append(calls, CreateCall(ImageArgs))
    /\ UNCHANGED <<backendVars, log>>

\* create(text) settles, and the call of create(image).
SeedCreateText(p) ==
    /\ seeder[p].pc = "createText"
    /\ \E o \in Outcomes :
         IF o.threw
         THEN /\ seeder' = [seeder EXCEPT ![p].pc = "threw", ![p].thrown = o]
              /\ UNCHANGED <<store, calls>>
         ELSE /\ store' = StoreCreate(store, TextArgs)
              /\ seeder' = [seeder EXCEPT ![p].pc = "createImage"]
              /\ calls' = Append(calls, CreateCall(ImageArgs))
    /\ UNCHANGED <<backendVars, log>>

\* create(image) settles, the confirmation is logged, the routine returns.
SeedCreateImage(p) ==
    /\ seeder[p].pc = "createImage"
    /\ \E o \in Outcomes :
         IF o.threw
         THEN /\ seeder' = [seeder EXCEPT ![p].pc = "threw", ![p].thrown = o]
              /\ UNCHANGED <<store, log>>
         ELSE /\ store' = StoreCreate(store, ImageArgs)
              /\ log' = Append(log, Entry("info", <<SeededText>>, <<>>))
              /\ seeder' = [seeder EXCEPT ![p].pc = "returned"]
    /\ UNCHANGED <<backendVars, calls>>

----------------------------------------------------------------------------
(* seedBackend *)

NoPrev == [valid |-> FALSE, cloud |-> FALSE, ok |-> FALSE, before |-> <<>>, after |-> <<>>]

\* What the invocation p of seedDefaultAIConfigs, now over, did.
Summary(p) ==
    [valid |-> TRUE, cloud |-> isCloudEnvironment, ok |-> seeder[p].pc = "returned",
     before |-> seeder[p].storeAtEntry, after |-> store]

BannerEntry == Entry("info", <<"Insforge Backend Starting...">>, <<>>)

\* error instanceof Error ? error.message : String(error)
ErrorText(e) == IF e.isError THEN e.message ELSE e.repr

ErrorEntry(e) == Entry("error", <<"Error during setup">>, << <<"error", ErrorText(e)>> >>)

DatabaseEntry ==
    Entry("info", <<"Database connected to PostgreSQL">>,
          << <<"host", OrElse(env.POSTGRES_HOST, "localhost")>>,
             <<"port", OrElse(env.POSTGRES_PORT, "5432")>>,
             <<"database", OrElse(env.POSTGRES_DB, "insforge")>> >>)

FoundTablesEntry(n) == Entry("info", <<"Found ", ToString(n), " user tables">>, <<>>)

\* a catch block that logs and throws the error on
CatchRethrows(e) ==
    /\ log' = Append(log, ErrorEntry(e))
    /\ caught' = e
    /\ pc' = "rejected"

\* catch (error) { logger.error(...) }, after which seedBackend returns.
Catch(e) ==
    /\ log' = Append(log, ErrorEntry(e))
    /\ caught' = e
    /\ pc' = "returned"

\* The host process starts (again) and calls seedBackend().
StartRun ==
    /\ pc \in {"idle", "returned", "rejected"}
    /\ runs < MaxRuns
    /\ runs' = runs + 1
    /\ env' \in EnvConfigs
    /\ prev' = IF SeederDone(Main) THEN Summary(Main) ELSE prev
    /\ seeder' = [seeder EXCEPT ![Main] = SeederIdle]
    /\ pc' = "start"
    /\ adminEmail' = Undefined
    /\ adminPassword' = Undefined
    /\ apiKey' = Undefined
    /\ tableCount' = 0
    /\ caught' = Ok
    /\ log' = <<>>
    /\ calls' = <<>>
    /\ UNCHANGED store

\* AuthService.getInstance(), DatabaseManager.getInstance() and the two
\* locals read from process.env, all before the try block: an error thrown
\* here rejects the promise seedBackend returned.
GetInstances ==
    /\ pc = "start"
    /\ \E auth \in Outcomes, db \in Outcomes :
         IF auth.threw \/ db.threw
         THEN /\ pc' = "rejected"
              /\ caught' = IF auth.threw THEN auth ELSE db
              /\ UNCHANGED <<adminEmail, adminPassword>>
         ELSE /\ pc' = "try"
              /\ adminEmail' = ReadAdminEmail(env)
              /\ adminPassword' = ReadAdminPassword(env)
              /\ UNCHANGED caught
    /\ UNCHANGED <<env, apiKey, tableCount, log, store, calls, seeder, prev, runs>>

\* The banner and ensureFirstAdmin(adminEmail, adminPassword).
EnsureFirstAdmin ==
    /\ pc = "try"
    /\ log' = Append(log, BannerEntry) \o ensureFirstAdmin(adminEmail, adminPassword)
    /\ pc' = "initializeApiKey"
    /\ UNCHANGED <<env, adminEmail, adminPassword, apiKey, tableCount, caught,
                   store, calls, seeder, prev, runs>>

\* const apiKey = await authService.initializeApiKey();
InitializeApiKey ==
    /\ pc = "initializeApiKey"
    /\ \/ /\ apiKey' \in ApiKeys
          /\ pc' = "getUserTableCount"
          /\ UNCHANGED <<caught, log>>
       \/ /\ \E e \in Throwables : Catch(e)
          /\ UNCHANGED apiKey
    /\ UNCHANGED <<env, adminEmail, adminPassword, tableCount, store, calls,
                   seeder, prev, runs>>

\* const tableCount = await dbManager.getUserTableCount(); and the two
\* entries about the database.
GetUserTableCount ==
    /\ pc = "getUserTableCount"
    /\ \/ /\ tableCount' \in 0..MaxTables
          /\ log' = Append(log, DatabaseEntry) \o
                    (IF tableCount' > 0 THEN <<FoundTablesEntry(tableCount')>> ELSE <<>>)
          /\ pc' = "seed"
          /\ UNCHANGED caught
       \/ /\ \E e \in Throwables : Catch(e)
          /\ UNCHANGED tableCount
    /\ UNCHANGED <<env, adminEmail, adminPassword, apiKey, store, calls,
                   seeder, prev, runs>>

\* seedDefaultAIConfigs() is called; seedBackend awaits it.
CallSeeder ==
    /\ pc = "seed"
    /\ seeder' = [seeder EXCEPT ![Main] = SeederEntered]
    /\ pc' = "awaitSeed"
    /\ UNCHANGED <<env, adminEmail, adminPassword, apiKey, tableCount, caught,
                   log, store, calls, prev, runs>>

\* seedDefaultAIConfigs() returned: the API key and the summary are logged.
SeederReturned ==
    /\ pc = "awaitSeed"
    /\ seeder[Main].pc = "returned"
    /\ log' = log \o << Entry("info", <<ApiKeyText, apiKey>>, <<>>),
                        Entry("info", <<SetupCompleteText>>, <<>>) >>
    /\ pc' = "returned"
    /\ UNCHANGED <<env, adminEmail, adminPassword, apiKey, tableCount, caught,
                   store, calls, seeder, prev, runs>>

\* seedDefaultAIConfigs() threw: the catch block.
SeederThrew ==
    /\ pc = "awaitSeed"
    /\ seeder[Main].pc = "threw"
    /\ Catch(seeder[Main].thrown)
    /\ UNCHANGED <<env, adminEmail, adminPassword, apiKey, tableCount,
                   store, calls, seeder, prev, runs>>

----------------------------------------------------------------------------
(* Spec: one process at a time starts, runs seedBackend to its end, and is  *)
(* started again, against a store that outlives it.                        *)

Init ==
    /\ env \in EnvConfigs
    /\ pc = "idle"
    /\ adminEmail = Undefined
    /\ adminPassword = Undefined
    /\ apiKey = Undefined
    /\ tableCount = 0
    /\ caught = Ok
    /\ log = <<>>
    /\ store \in InitialStores
    /\ calls = <<>>
    /\ seeder = [p \in Invocations |-> SeederIdle]
    /\ prev = NoPrev
    /\ runs = 0

Next ==
    \/ StartRun
    \/ GetInstances
    \/ EnsureFirstAdmin
    \/ InitializeApiKey
    \/ GetUserTableCount
    \/ CallSeeder
    \/ SeedEnter(Main)
    \/ SeedFindAll(Main)
    \/ SeedCreateText(Main)
    \/ SeedCreateImage(Main)
    \/ SeederReturned
    \/ SeederThrew

Spec == Init /\ [][Next]_vars

----------------------------------------------------------------------------
(* SpecAdmin: ensureFirstAdmin called on every pair of strings, the empty   *)
(* string and undefined among them; runs counts the calls made.            *)

AdminEmails == {Undefined, "", "root@corp.io", "admin@example.com"}

AdminPasswords == {Undefined, "", "s3cret", "change-this-password"}

InitAdmin ==
    /\ env \in {Env(Undefined, Undefined, Undefined, Undefined, Undefined, FALSE)}
    /\ pc = "admin"
    /\ adminEmail = Undefined
    /\ adminPassword = Undefined
    /\ apiKey = Undefined
    /\ tableCount = 0
    /\ caught = Ok
    /\ log = <<>>
    /\ store = <<>>
    /\ calls = <<>>
    /\ seeder = [p \in Invocations |-> SeederIdle]
    /\ prev = NoPrev
    /\ runs = 0

CheckAdmin ==
    /\ pc = "admin"
    /\ runs < MaxChecks
    /\ runs' = runs + 1
    /\ adminEmail' \in AdminEmails
    /\ adminPassword' \in AdminPasswords
    /\ log' = log \o ensureFirstAdmin(adminEmail', adminPassword')
    /\ UNCHANGED <<env, pc, apiKey, tableCount, caught, store, calls, seeder, prev>>

NextAdmin == CheckAdmin

SpecAdmin == InitAdmin /\ [][NextAdmin]_vars

----------------------------------------------------------------------------
(* SpecConc: seedDefaultAIConfigs invoked twice in one process, the second  *)
(* invocation free to start and to run while the first is suspended at an  *)
(* await.                                                                  *)

InitConc ==
    /\ env \in EnvConfigs
    /\ pc = "concurrent"
    /\ adminEmail = Undefined
    /\ adminPassword = Undefined
    /\ apiKey = Undefined
    /\ tableCount = 0
    /\ caught = Ok
    /\ log = <<>>
    /\ store \in InitialStores
    /\ calls = <<>>
    /\ seeder = [p \in Invocations |-> SeederIdle]
    /\ prev = NoPrev
    /\ runs = 0

InvokeSeeder(p) ==
    /\ pc = "concurrent"
    /\ seeder[p].pc = "idle"
    /\ seeder' = [seeder EXCEPT ![p] = SeederEntered]
    /\ UNCHANGED <<backendVars, log, store, calls>>

NextConc ==
    \E p \in Invocations :
        \/ InvokeSeeder(p)
        \/ SeedEnter(p)
        \/ SeedFindAll(p)
        \/ SeedCreateText(p)
        \/ SeedCreateImage(p)

SpecConc == InitConc /\ [][NextConc]_vars

----------------------------------------------------------------------------
(* Vocabulary of the properties *)

TextRow ==
    [modality |-> "text", provider |-> "openrouter",
     model |-> "anthropic/claude-3.5-haiku",
     systemPrompt |-> "You are a helpful assistant."]

ImageRow ==
    [modality |-> "image", provider |-> "openrouter",
     model |-> "google/gemini-2.5-flash-image-preview",
     systemPrompt |-> Undefined]

CreateTextCall ==
    [op |-> "create",
     args |-> <<"text", "openrouter", "anthropic/claude-3.5-haiku",
                "You are a helpful assistant.">>]

CreateImageCall ==
    [op |-> "create",
     args |-> <<"image", "openrouter", "google/gemini-2.5-flash-image-preview">>]

EntriesWith(level, first) ==
    {i \in 1..Len(log) : log[i].level = level /\ log[i].msg[1] = first}

ErrorEntries == {i \in 1..Len(log) : log[i].level = "error"}

WarnEntries == {i \in 1..Len(log) : log[i].level = "warn"}

CreateCalls == {i \in 1..Len(calls) : calls[i].op = "create"}

\* The value v appears in some entry of the log, in its message or its meta.
Logged(v) ==
    \E i \in 1..Len(log) :
        \/ Contains(log[i].msg, v)
        \/ \E j \in 1..Len(log[i].meta) : log[i].meta[j][2] = v

RowsOf(modality) == {i \in 1..Len(store) : store[i].modality = modality}

AdminUnset == env.ADMIN_EMAIL = Undefined /\ env.ADMIN_PASSWORD = Undefined

ImageCreateThrew ==
    /\ seeder[Main].pc = "threw"
    /\ Len(calls) = 3
    /\ calls[3] = CreateImageCall

----------------------------------------------------------------------------
(* C1 *)

\* C1 (as claimed): seedBackend never rejects, whatever the collaborators do,
\* getInstance included; and when a step threw, the log holds exactly one
\* error entry, carrying the message of an Error or the string form of any
\* other thrown value.
C1_NeverPropagates ==
    /\ pc # "rejected"
    /\ (pc = "returned" /\ caught.threw) =>
          /\ Cardinality(ErrorEntries) = 1
          /\ \A i \in ErrorEntries :
                log[i].meta = << <<"error", IF caught.isError THEN caught.message
                                                              ELSE caught.repr>> >>
    /\ (pc = "returned" /\ ~caught.threw) => ErrorEntries = {}

----------------------------------------------------------------------------
(* C2 *)

\* C2: when an invocation of seedDefaultAIConfigs in cloud mode started from
\* the empty store and returned, the store held exactly two rows after it,
\* and the next invocation in cloud mode starts from those rows, issues no
\* create and leaves the store as it found it.
C2_Idempotent ==
    (prev.valid /\ prev.cloud /\ prev.ok /\ prev.before = <<>> /\ isCloudEnvironment) =>
        /\ Len(prev.after) = 2
        /\ store = prev.after
        /\ seeder[Main].pc # "idle" => seeder[Main].storeAtEntry = prev.after
        /\ CreateCalls = {}

C2_Witness ==
    /\ prev.valid /\ prev.cloud /\ prev.ok /\ prev.before = <<>>
    /\ isCloudEnvironment
    /\ pc = "returned"
    /\ seeder[Main].pc = "returned"
    /\ calls = <<FindAllCall>>
    /\ Len(store) = 2

----------------------------------------------------------------------------
(* C3 *)

\* C3: once findAll has returned one or more rows, the invocation issues no
\* create, the store keeps exactly the rows it had, and the confirmation is
\* not logged.
C3_ExistingGate ==
    Len(seeder[Main].existingConfigs) > 0 =>
        /\ CreateCalls = {}
        /\ store = seeder[Main].existingConfigs
        /\ store = seeder[Main].storeAtEntry
        /\ EntriesWith("info", SeededText) = {}
        /\ seeder[Main].pc = "returned"

C3_Witness ==
    /\ Len(seeder[Main].existingConfigs) > 0
    /\ seeder[Main].pc = "returned"
    /\ pc = "returned"
    /\ calls = <<FindAllCall>>

----------------------------------------------------------------------------
(* C4 *)

\* C4: outside cloud mode an invocation of seedDefaultAIConfigs issues no
\* call to the store, writes nothing to the log and leaves the store as it
\* was.
C4_ModeGate ==
    (~isCloudEnvironment /\ seeder[Main].pc # "idle") =>
        /\ calls = <<>>
        /\ store = seeder[Main].storeAtEntry
        /\ seeder[Main].pc \in {"entry", "returned"}
        /\ pc = "awaitSeed" => log = seeder[Main].logAtEntry
        /\ EntriesWith("info", SeededText) = {}

C4_Witness ==
    /\ ~isCloudEnvironment
    /\ pc = "awaitSeed"
    /\ seeder[Main].pc = "returned"
    /\ calls = <<>>

----------------------------------------------------------------------------
(* C5 *)

\* C5: in cloud mode, an invocation that started from the empty store and
\* returned has issued findAll, create(text) and create(image) in that order,
\* the store holds the text row and then the image row with the documented
\* fields, and the confirmation is logged once; and whenever the confirmation
\* is in the log both creates have completed.
C5_FixedContent ==
    /\ (isCloudEnvironment /\ seeder[Main].pc = "returned"
            /\ seeder[Main].storeAtEntry = <<>>) =>
          /\ calls = <<FindAllCall, CreateTextCall, CreateImageCall>>
          /\ store = <<TextRow, ImageRow>>
          /\ Cardinality(EntriesWith("info", SeededText)) = 1
    /\ EntriesWith("info", SeededText) # {} =>
          /\ seeder[Main].pc = "returned"
          /\ CreateCalls = {2, 3}
          /\ store = <<TextRow, ImageRow>>

C5_Witness ==
    /\ isCloudEnvironment
    /\ seeder[Main].pc = "returned"
    /\ seeder[Main].storeAtEntry = <<>>
    /\ store = <<TextRow, ImageRow>>
    /\ pc = "returned"

----------------------------------------------------------------------------
(* C6 *)

\* C6: when create(image) threw after create(text) succeeded, seedBackend
\* does not reject: its catch block is the next step, and after it the log
\* holds exactly one error entry; the text row stays in the store alone; and
\* the confirmation, the API key and the 'Setup complete' summary are never
\* logged.
C6_FailureIsolation ==
    ImageCreateThrew =>
        /\ pc \in {"awaitSeed", "returned"}
        /\ pc = "awaitSeed" => ENABLED SeederThrew
        /\ pc = "returned" =>
              /\ Cardinality(ErrorEntries) = 1
              /\ caught = seeder[Main].thrown
        /\ store = seeder[Main].storeAtEntry \o <<TextRow>>
        /\ EntriesWith("info", SeededText) = {}
        /\ EntriesWith("info", ApiKeyText) = {}
        /\ EntriesWith("info", SetupCompleteText) = {}

C6_Witness ==
    /\ ImageCreateThrew
    /\ pc = "returned"
    /\ store = <<TextRow>>
    /\ Cardinality(ErrorEntries) = 1

----------------------------------------------------------------------------
(* C7 *)

\* C7: each call of ensureFirstAdmin writes exactly one entry: for two
\* non-empty strings the informational 'Admin configured: <email>', and for a
\* pair with an empty or undefined member the warning, which holds neither
\* value and is not the 'configured' message.
C7_AdminCheck ==
    /\ Len(log) = runs
    /\ runs > 0 =>
          LET last == log[Len(log)]
              present(x) == x # "" /\ x # Undefined
          IN  IF present(adminEmail) /\ present(adminPassword)
              THEN /\ last.level = "info"
                   /\ last.msg = <<"Admin configured: ", adminEmail>>
              ELSE /\ last.level = "warn"
                   /\ last.msg[1] # "Admin configured: "
                   /\ ~Contains(last.msg, adminEmail)
                   /\ ~Contains(last.msg, adminPassword)

C7_Witness ==
    /\ runs = 3
    /\ log[1].level = "warn"
    /\ log[2].level = "info"
    /\ log[3].level = "warn"
    /\ adminEmail = "root@corp.io"
    /\ adminPassword = ""

----------------------------------------------------------------------------
(* C8 *)

\* C8 (as claimed): with ADMIN_EMAIL and ADMIN_PASSWORD unset, a seedBackend
\* that has returned has logged the placeholder email and the placeholder
\* password, and has logged no warning.
C8_LogsBothPlaceholders ==
    (AdminUnset /\ pc = "returned") =>
        /\ Logged("admin@example.com")
        /\ Logged("change-this-password")
        /\ WarnEntries = {}

\* C8 (amended): with ADMIN_EMAIL and ADMIN_PASSWORD unset, seedBackend
\* never logs the warning and never logs the placeholder password, and once
\* it is past ensureFirstAdmin the log holds exactly one 'Admin configured'
\* entry, which carries the placeholder email.
C8_LogsPlaceholderEmail ==
    AdminUnset =>
        /\ WarnEntries = {}
        /\ ~Logged("change-this-password")
        /\ pc \in {"initializeApiKey", "getUserTableCount", "seed", "awaitSeed", "returned"} =>
              /\ Cardinality(EntriesWith("info", "Admin configured: ")) = 1
              /\ \A i \in EntriesWith("info", "Admin configured: ") :
                    log[i].msg = <<"Admin configured: ", "admin@example.com">>
              /\ adminPassword = "change-this-password"

C8_Witness ==
    /\ AdminUnset
    /\ pc = "returned"
    /\ ~caught.threw
    /\ Logged("admin@example.com")

----------------------------------------------------------------------------
(* C9 *)

\* C9: when two invocations of seedDefaultAIConfigs in cloud mode have both
\* found the store empty and both returned, the store holds four rows: the
\* text row twice and the image row twice.
C9_DoubleInsert ==
    (isCloudEnvironment
        /\ \A p \in Invocations :
              seeder[p].pc = "returned" /\ seeder[p].existingConfigs = <<>>) =>
        /\ Len(store) = 4
        /\ Cardinality(RowsOf("text")) = 2
        /\ Cardinality(RowsOf("image")) = 2
        /\ \A i \in 1..Len(store) : store[i] \in {TextRow, ImageRow}

C9_Witness ==
    /\ isCloudEnvironment
    /\ \A p \in Invocations :
          seeder[p].pc = "returned" /\ seeder[p].existingConfigs = <<>>
    /\ Len(store) = 4
    /\ Len(calls) = 6
    /\ calls[1] = FindAllCall
    /\ calls[2] = FindAllCall

----------------------------------------------------------------------------
(* C10 *)

\* The store holds the text row alone and no create(image) is pending.
PartialSeed == store = <<TextRow>> /\ seeder[Main].pc # "createImage"

\* C10: once the store holds the text row alone and the create of the image
\* row is no longer pending, no step of this or of any later run changes the
\* store or issues a create.
C10_NeverRepaired ==
    [][PartialSeed =>
          /\ PartialSeed'
          /\ \/ calls' = calls
             \/ calls' = <<>>
             \/ calls' = Append(calls, FindAllCall)]_vars

C10_Witness ==
    /\ store = <<TextRow>>
    /\ runs = 3
    /\ isCloudEnvironment
    /\ seeder[Main].pc = "returned"
    /\ seeder[Main].existingConfigs = <<TextRow>>
    /\ prev.valid /\ prev.cloud /\ prev.before = <<TextRow>> /\ prev.after = <<TextRow>>

====
